---- MODULE Spec2Model ----
(***************************************************************************)
(* The shopping cart store of the storefront (useCartStore): the cart      *)
(* lines, the drawer flag, the computed getters of the state object, the   *)
(* 'cart-storage' snapshot, and the operations addItem, removeItem,        *)
(* updateQuantity, clearCart, openCart, closeCart and toggleCart.          *)
(*                                                                         *)
(* JavaScript values: an optional value is a sequence of length at most    *)
(* one (Undefined is <<>>, a defined x is <<x>>); a string is a TLA+       *)
(* string; an object used as a mapping (attributes) is the sequence of its *)
(* <<key, value>> entries in insertion order, which is the order           *)
(* Object.entries yields.                                                  *)
(***************************************************************************)
EXTENDS Integers, Sequences, FiniteSets, TLC

VARIABLES
    items,      \* state.items: the cart lines, in order
    isOpen,     \* state.isOpen
    computed,   \* total / subtotal / itemCount / isEmpty of the state object
    storage,    \* the 'cart-storage' slot of localStorage
    last,       \* history: the last operation and its arguments
    run,        \* history: the current run of addItem calls for one variant
    phase,      \* "store" in Spec; the step of the two-call scenario in SpecId
    idIn,       \* SpecId: the two candidates of the scenario
    checkout,   \* SpecCheckout: the state of the checkout page
    otherTab,   \* SpecTabs: the cart store of a second tab
    pending,    \* SpecAsync: the handleAddToCart calls under way
    route,      \* SpecRoute: the request the order-creation route is handling
    auth        \* SpecAuth: the auth store and its 'auth-storage' slot

vars == <<items, isOpen, computed, storage, last, run, phase, idIn,
          checkout, otherTab, pending, route, auth>>

\* What the actions of the store itself leave alone
page == <<phase, idIn, checkout, otherTab, pending, route, auth>>

----------------------------------------------------------------------------
(* Bounds of the model *)

MaxQty == 2         \* largest quantity one call asks for
MaxStock == 1       \* largest stock ceiling (maxQuantity) a candidate carries
MaxLineQty == 3     \* merges that would store more than this are not explored
NegQty == 1         \* updateQuantity is called with quantities -NegQty..MaxQty
MaxRun == 3         \* the run history counts calls up to this number
MaxProductId == 2   \* SpecId: product ids 1..MaxProductId
MaxVariationId == 1 \* SpecId: variation ids 0..MaxVariationId
MaxTabQty == 2      \* SpecTabs: largest quantity of a line in either tab
MaxLog == 3         \* SpecAsync: number of store actions in a scenario
MaxOrderLines == 3  \* SpecRoute: largest number of line_items in a request
MaxUserId == 3      \* SpecAuth: user ids 1..MaxUserId

----------------------------------------------------------------------------
(* JavaScript helpers *)

Undefined == <<>>
Some(x) == <<x>>

\* truthiness of a value of type number | undefined
Truthy(opt) == opt # Undefined /\ opt[1] # 0

Min(a, b) == IF a <= b THEN a ELSE b

\* Collation order of the attribute names used in the model; localeCompare
\* is negative, zero or positive as the first name sorts before, with or
\* after the second.
KeyCollation == <<"Color", "Fit", "Size">>
LocaleRank(k) == CHOOSE i \in 1..Len(KeyCollation) : KeyCollation[i] = k
localeCompare(a, b) == LocaleRank(a) - LocaleRank(b)

\* Array.prototype.sort with the comparator ([a], [b]) => a.localeCompare(b):
\* a stable sort of the entries by key.
InsertEntry(sorted, e) ==
    LET later == {i \in 1..Len(sorted) : localeCompare(sorted[i][1], e[1]) > 0}
        pos == IF later = {} THEN Len(sorted) + 1
               ELSE CHOOSE i \in later : \A j \in later : i <= j
    IN SubSeq(sorted, 1, pos - 1) \o <<e>> \o SubSeq(sorted, pos, Len(sorted))

RECURSIVE sortEntries(_)
sortEntries(entries) ==
    IF entries = <<>> THEN <<>>
    ELSE InsertEntry(sortEntries(SubSeq(entries, 1, Len(entries) - 1)),
                     entries[Len(entries)])

\* Array.prototype.join
RECURSIVE join(_, _)
join(parts, sep) ==
    IF parts = <<>> THEN ""
    ELSE IF Len(parts) = 1 THEN parts[1]
    ELSE parts[1] \o sep \o join(Tail(parts), sep)

----------------------------------------------------------------------------
(* generateCartItemId *)

generateCartItemIdUnsorted(productId, variationId, attributes) ==
    LET id0 == ToString(productId)
        id1 == IF Truthy(variationId)
               THEN id0 \o "-" \o ToString(variationId[1]) ELSE id0
    IN IF attributes # Undefined /\ Len(attributes[1]) > 0
       THEN id1 \o "-" \o
            join([i \in 1..Len(attributes[1]) |->
                    attributes[1][i][1] \o ":" \o attributes[1][i][2]], "-")
       ELSE id1

generateCartItemIdPresent(productId, variationId, attributes) ==
    LET id0 == ToString(productId)
        id1 == IF variationId # Undefined
               THEN id0 \o "-" \o ToString(variationId[1]) ELSE id0
    IN IF attributes # Undefined /\ Len(attributes[1]) > 0
       THEN LET sorted == sortEntries(attributes[1])
                attrString == join([i \in 1..Len(sorted) |->
                                      sorted[i][1] \o ":" \o sorted[i][2]], "-")
            IN id1 \o "-" \o attrString
       ELSE id1

generateCartItemId(productId, variationId, attributes) ==
    LET id0 == ToString(productId)
        id1 == IF Truthy(variationId)
               THEN id0 \o "-" \o ToString(variationId[1]) ELSE id0
    IN IF attributes # Undefined /\ Len(attributes[1]) > 0
       THEN LET sorted == sortEntries(attributes[1])
                attrString == join([i \in 1..Len(sorted) |->
                                      sorted[i][1] \o ":" \o sorted[i][2]], "-")
            IN id1 \o "-" \o attrString
       ELSE id1

----------------------------------------------------------------------------
(* calculateTotals and the reads built on it *)

RECURSIVE reduceTotalsPerLine(_, _)
reduceTotalsPerLine(list, acc) ==
    IF list = <<>> THEN acc
    ELSE reduceTotalsPerLine(Tail(list),
            [total |-> acc.total + Head(list).price * Head(list).quantity,
             subtotal |-> acc.subtotal + Head(list).price * Head(list).quantity,
             itemCount |-> acc.itemCount + 1])

RECURSIVE reduceTotals(_, _)
reduceTotals(list, acc) ==
    IF list = <<>> THEN acc
    ELSE reduceTotals(Tail(list),
            [total |-> acc.total + Head(list).price * Head(list).quantity,
             subtotal |-> acc.subtotal + Head(list).price * Head(list).quantity,
             itemCount |-> acc.itemCount + Head(list).quantity])

calculateTotalsPerLine(list) ==
    reduceTotalsPerLine(list, [total |-> 0, subtotal |-> 0, itemCount |-> 0])

calculateTotals(list) ==
    reduceTotals(list, [total |-> 0, subtotal |-> 0, itemCount |-> 0])

\* The state object as the initializer returns it: total, subtotal, itemCount
\* and isEmpty are accessor properties.
Getters == [kind |-> "getter", total |-> 0, subtotal |-> 0, itemCount |-> 0,
            isEmpty |-> TRUE]

\* Reading state.total / state.subtotal / state.itemCount / state.isEmpty: an
\* accessor property runs its getter on the current items, a data property
\* yields the value it holds.
StoreTotal ==
    IF computed.kind = "getter" THEN calculateTotals(items).total ELSE computed.total
StoreSubtotal ==
    IF computed.kind = "getter" THEN calculateTotals(items).subtotal
    ELSE computed.subtotal
StoreItemCount ==
    IF computed.kind = "getter" THEN calculateTotals(items).itemCount
    ELSE computed.itemCount
StoreIsEmpty ==
    IF computed.kind = "getter" THEN Len(items) = 0 ELSE computed.isEmpty

\* The selector hooks read state.items and compute from it.
useCartTotal == calculateTotals(items).total
useCartItemCount == calculateTotals(items).itemCount

----------------------------------------------------------------------------
(* set: the store's setState, wrapped by persist *)

StorageVersion == 1

\* The properties of a CartItem that are modelled, and the optional ones
ItemKeys == {"id", "productId", "variationId", "attributes", "price",
             "quantity", "maxQuantity"}

OptionalKeys == {"variationId", "attributes", "maxQuantity"}

\* JSON.stringify of a line: a property whose value is undefined is left out
stringifyItem(item) ==
    [k \in {key \in DOMAIN item : key \notin OptionalKeys \/ item[key] # Undefined}
        |-> IF k \in OptionalKeys THEN item[k][1] ELSE item[k]]

stringifyItems(list) == [i \in 1..Len(list) |-> stringifyItem(list[i])]

\* JSON.parse of a line: a property that is not in the text reads as undefined
parseItem(json) ==
    [k \in ItemKeys |->
        IF k \notin DOMAIN json THEN Undefined
        ELSE IF k \in OptionalKeys THEN Some(json[k]) ELSE json[k]]

parseItems(json) == [i \in 1..Len(json) |-> parseItem(json[i])]

\* The text of a slot: whether it is well-formed JSON, and the document
SlotText(doc) == Some([wellFormed |-> TRUE, doc |-> doc])

persistSnapshotStale(newItems) ==
    SlotText([state |-> [items |-> stringifyItems(items)], version |-> StorageVersion])

persistSnapshotFirstWins(newItems) ==
    IF storage # Undefined THEN storage
    ELSE SlotText([state |-> [items |-> stringifyItems(newItems)], version |-> StorageVersion])

\* partialize and the write of the snapshot to the slot
persistSnapshot(newItems) ==
    SlotText([state |-> [items |-> stringifyItems(newItems)], version |-> StorageVersion])

\* getItem of the JSON storage: null for a missing slot, JSON.parse of its
\* text otherwise, which throws on text that is not JSON
getItem(slot) ==
    [threw |-> slot # Undefined /\ ~slot[1].wellFormed,
     value |-> IF slot = Undefined \/ ~slot[1].wellFormed
               THEN Undefined ELSE Some(slot[1].doc)]

\* The persisted state persist hands to merge: none when the slot is
\* missing, or when its version is a number other than the store's and
\* there is no migrate option
migratedState(slot) ==
    IF getItem(slot).value = Undefined THEN Undefined
    ELSE IF /\ "version" \in DOMAIN getItem(slot).value[1]
            /\ getItem(slot).value[1].version # StorageVersion
    THEN Undefined
    ELSE Some(getItem(slot).value[1].state)

\* What get() returns while the initializer and hydrate run: the store's
\* state is assigned only once create has the initializer's result
StateDuringCreate == Undefined

\* Reading total, subtotal, itemCount or isEmpty evaluates get().items
getterThrows(state) == state = Undefined

\* merge defaults to { ...currentState, ...persistedState } with currentState
\* the initializer's result: the spread reads every own property of it, the
\* four accessor properties included
mergeThrows == getterThrows(StateDuringCreate)

hydrateAdoptsSlot(slot) ==
    IF slot = Undefined \/ ~slot[1].wellFormed THEN <<>>
    ELSE parseItems(slot[1].doc.state.items)

\* The items of a newly created store: hydrate runs during create, any
\* error in it is caught and the store then starts from the initializer's
\* result, whose items are []
hydrate(slot) ==
    IF getItem(slot).threw \/ mergeThrows \/ migratedState(slot) = Undefined
    THEN <<>>
    ELSE parseItems(migratedState(slot)[1].items)

\* setState builds the next state with Object.assign({}, state, partial):
\* every own property of the current state is read and copied as a data
\* property, so an accessor property is replaced by the value its getter
\* returns at that moment, when get() still yields the current state.
assignComputed ==
    IF computed.kind = "getter"
    THEN [kind |-> "value",
          total |-> calculateTotals(items).total,
          subtotal |-> calculateTotals(items).subtotal,
          itemCount |-> calculateTotals(items).itemCount,
          isEmpty |-> (Len(items) = 0)]
    ELSE computed

SetState(newItems, newIsOpen) ==
    /\ items' = newItems
    /\ isOpen' = newIsOpen
    /\ computed' = assignComputed
    /\ storage' = persistSnapshot(newItems)

----------------------------------------------------------------------------
(* The results of the actions on items *)

findIndexNever(list, id) == -1

\* Array.prototype.findIndex((i) => i.id === id)
findIndex(list, id) ==
    LET hits == {i \in 1..Len(list) : list[i].id = id}
    IN IF hits = {} THEN -1 ELSE CHOOSE i \in hits : \A j \in hits : i <= j

addItemItemsReplace(list, item) ==
    LET id == generateCartItemId(item.productId, item.variationId, item.attributes)
        existingItemIndex == findIndex(list, id)
    IN IF existingItemIndex # -1
       THEN LET existingItem == list[existingItemIndex]
                newQuantity == item.quantity
                maxQty == existingItem.maxQuantity
                finalQuantity == IF Truthy(maxQty) THEN Min(newQuantity, maxQty[1])
                                 ELSE newQuantity
            IN [list EXCEPT ![existingItemIndex] =
                    [existingItem EXCEPT !.quantity = finalQuantity]]
       ELSE Append(list, [id |-> id,
                          productId |-> item.productId,
                          variationId |-> item.variationId,
                          attributes |-> item.attributes,
                          price |-> item.price,
                          quantity |-> item.quantity,
                          maxQuantity |-> item.maxQuantity])

addItemItemsTakesCandidate(list, item) ==
    LET id == generateCartItemId(item.productId, item.variationId, item.attributes)
        existingItemIndex == findIndex(list, id)
    IN IF existingItemIndex # -1
       THEN LET existingItem == list[existingItemIndex]
                newQuantity == existingItem.quantity + item.quantity
                maxQty == item.maxQuantity
                finalQuantity == IF Truthy(maxQty) THEN Min(newQuantity, maxQty[1])
                                 ELSE newQuantity
            IN [list EXCEPT ![existingItemIndex] =
                    [existingItem EXCEPT !.quantity = finalQuantity,
                                         !.price = item.price,
                                         !.maxQuantity = item.maxQuantity]]
       ELSE Append(list, [id |-> id,
                          productId |-> item.productId,
                          variationId |-> item.variationId,
                          attributes |-> item.attributes,
                          price |-> item.price,
                          quantity |-> item.quantity,
                          maxQuantity |-> item.maxQuantity])

addItemItemsNoId(list, item) ==
    LET id == generateCartItemId(item.productId, item.variationId, item.attributes)
        existingItemIndex == findIndex(list, id)
    IN IF existingItemIndex # -1
       THEN LET existingItem == list[existingItemIndex]
                newQuantity == existingItem.quantity + item.quantity
                maxQty == existingItem.maxQuantity
                finalQuantity == IF Truthy(maxQty) THEN Min(newQuantity, maxQty[1])
                                 ELSE newQuantity
            IN [list EXCEPT ![existingItemIndex] =
                    [existingItem EXCEPT !.quantity = finalQuantity]]
       ELSE Append(list, item)

addItemItems(list, item) ==
    LET id == generateCartItemId(item.productId, item.variationId, item.attributes)
        existingItemIndex == findIndex(list, id)
    IN IF existingItemIndex # -1
       THEN LET existingItem == list[existingItemIndex]
                newQuantity == existingItem.quantity + item.quantity
                maxQty == existingItem.maxQuantity
                finalQuantity == IF Truthy(maxQty) THEN Min(newQuantity, maxQty[1])
                                 ELSE newQuantity
            IN [list EXCEPT ![existingItemIndex] =
                    [existingItem EXCEPT !.quantity = finalQuantity]]
       ELSE Append(list, [id |-> id,
                          productId |-> item.productId,
                          variationId |-> item.variationId,
                          attributes |-> item.attributes,
                          price |-> item.price,
                          quantity |-> item.quantity,
                          maxQuantity |-> item.maxQuantity])

addItemIsOpenKept == isOpen

\* isOpen: true, in both branches of addItem
addItemIsOpen == TRUE

removeItemItemsUpTo(list, id) ==
    IF findIndex(list, id) = -1 THEN list
    ELSE SubSeq(list, 1, findIndex(list, id) - 1)

removeItemItemsKeep(list, id) == SelectSeq(list, LAMBDA item : item.id = id)

removeItemItems(list, id) == SelectSeq(list, LAMBDA item : item.id # id)

updateQuantityItemsNoRemove(list, id, quantity) ==
    IF quantity < 0
    THEN SelectSeq(list, LAMBDA item : item.id # id)
    ELSE [i \in 1..Len(list) |->
            IF list[i].id # id THEN list[i]
            ELSE LET maxQty == list[i].maxQuantity
                     finalQuantity == IF Truthy(maxQty) THEN Min(quantity, maxQty[1])
                                      ELSE quantity
                 IN [list[i] EXCEPT !.quantity = finalQuantity]]

updateQuantityItemsNoClamp(list, id, quantity) ==
    IF quantity <= 0
    THEN SelectSeq(list, LAMBDA item : item.id # id)
    ELSE [i \in 1..Len(list) |->
            IF list[i].id # id THEN list[i]
            ELSE [list[i] EXCEPT !.quantity = quantity]]

updateQuantityItems(list, id, quantity) ==
    IF quantity <= 0
    THEN SelectSeq(list, LAMBDA item : item.id # id)
    ELSE [i \in 1..Len(list) |->
            IF list[i].id # id THEN list[i]
            ELSE LET maxQty == list[i].maxQuantity
                     finalQuantity == IF Truthy(maxQty) THEN Min(quantity, maxQty[1])
                                      ELSE quantity
                 IN [list[i] EXCEPT !.quantity = finalQuantity]]

keptItemsCleared == <<>>

\* set({ isOpen }): the partial is merged into the state, items stays
keptItems == items

keptIsOpenClosed == FALSE

\* set({ items }): the partial is merged into the state, isOpen stays
keptIsOpen == isOpen

clearCartItemsKept == items

\* clearCart: set({ items: [] })
clearCartItems == <<>>

----------------------------------------------------------------------------
(* Inputs *)

\* The purchasable variants the product page offers in Spec: a simple
\* product and one variation of a variable product.
Variants ==
    { [productId |-> 10, variationId |-> Undefined, attributes |-> Undefined,
       price |-> 25],
      [productId |-> 5, variationId |-> Some(99),
       attributes |-> Some(<< <<"Size", "M">>, <<"Color", "Blue">> >>),
       price |-> 40] }

\* maxQuantity: absent, or a stock count
StockCeilings == {Undefined} \cup {Some(n) : n \in 0..MaxStock}

Candidate(v, q, m) ==
    [productId |-> v.productId, variationId |-> v.variationId,
     attributes |-> v.attributes, price |-> v.price,
     quantity |-> q, maxQuantity |-> m]

Candidates == {Candidate(v, q, m) : v \in Variants, q \in 1..MaxQty, m \in StockCeilings}

\* The ids removeItem and updateQuantity are called with: those of the
\* variants, and one no line has.
KnownIds ==
    {generateCartItemId(v.productId, v.variationId, v.attributes) : v \in Variants}
    \cup {"404"}

Quantities == (0 - NegQty)..MaxQty

\* SpecId: attribute objects over the collated names, in every insertion order
AttrKeys == {KeyCollation[i] : i \in 1..Len(KeyCollation)}
AttrValues == {"M", "Blue"}
Range(s) == {s[i] : i \in 1..Len(s)}
AttrObjectsOfSize(n) ==
    {s \in [1..n -> AttrKeys \X AttrValues] :
        \A i, j \in 1..n : i # j => s[i][1] # s[j][1]}
AttrObjects == UNION {AttrObjectsOfSize(n) : n \in 0..Len(KeyCollation)}
Reorderings(obj) == {s \in [1..Len(obj) -> Range(obj)] : Range(s) = Range(obj)}

IdProducts == 1..MaxProductId
IdVariations == {Undefined} \cup {Some(n) : n \in 0..MaxVariationId}

IdCandidate(p, v, attrs) ==
    [productId |-> p, variationId |-> v, attributes |-> attrs, price |-> 25,
     quantity |-> 1, maxQuantity |-> Undefined]

\* Two candidates that differ only in the insertion order of their attributes
IdScenarios ==
    {[a |-> IdCandidate(p, v, Undefined), b |-> IdCandidate(p, v, Undefined)] :
        p \in IdProducts, v \in IdVariations}
    \cup UNION { {[a |-> IdCandidate(p, v, Some(obj)), b |-> IdCandidate(p, v, Some(re))] :
                    p \in IdProducts, v \in IdVariations, re \in Reorderings(obj)} :
                 obj \in AttrObjects }

----------------------------------------------------------------------------
(* History *)

NoItem == [productId |-> 0, variationId |-> Undefined, attributes |-> Undefined,
           price |-> 0, quantity |-> 0, maxQuantity |-> Undefined]

\* The last operation: its name and arguments (for addItem, id is the derived
\* id), whether a line with that id was in the cart before it, that line's
\* quantity then, and the number of lines then.
Record(op, id, quantity, item) ==
    [op |-> op, id |-> id, quantity |-> quantity, item |-> item,
     prevLen |-> Len(items),
     found |-> (\E i \in 1..Len(items) : items[i].id = id),
     prevQuantity |-> IF \E i \in 1..Len(items) : items[i].id = id
                      THEN items[CHOOSE i \in 1..Len(items) : items[i].id = id].quantity
                      ELSE 0]

NoRecord == [op |-> "create", id |-> "", quantity |-> 0, item |-> NoItem,
             prevLen |-> 0, found |-> FALSE, prevQuantity |-> 0]

\* The attribute mapping, whatever the insertion order
AttrMap(attributes) == IF attributes = Undefined THEN {} ELSE Range(attributes[1])

SameVariant(a, b) ==
    /\ a.productId = b.productId
    /\ a.variationId = b.variationId
    /\ AttrMap(a.attributes) = AttrMap(b.attributes)

SameInputs(a, b) ==
    /\ a.productId = b.productId
    /\ a.variationId = b.variationId
    /\ a.attributes = b.attributes

NoRun == [active |-> FALSE, productId |-> 0, variationId |-> Undefined,
          attributes |-> Undefined, maxQuantity |-> Undefined, sameMax |-> TRUE,
          count |-> 0, sum |-> 0, startLen |-> 0]

SumCap == 2 * MaxQty + MaxStock

\* A run is a sequence of consecutive addItem calls with the same
\* (productId, variationId, attributes), begun when no line of that variant
\* was in the cart: the number of calls, the sum of the quantities asked for
\* (both saturating), the maxQuantity of the first call and whether every
\* call carried it.
RunAfterAdd(item) ==
    IF run.active /\ SameInputs(run, item)
    THEN [run EXCEPT !.count = Min(run.count + 1, MaxRun),
                     !.sum = Min(run.sum + item.quantity, SumCap),
                     !.sameMax = run.sameMax /\ item.maxQuantity = run.maxQuantity]
    ELSE IF \A i \in 1..Len(items) : ~SameVariant(items[i], item)
    THEN [active |-> TRUE, productId |-> item.productId,
          variationId |-> item.variationId, attributes |-> item.attributes,
          maxQuantity |-> item.maxQuantity, sameMax |-> TRUE,
          count |-> 1, sum |-> item.quantity, startLen |-> Len(items)]
    ELSE NoRun

----------------------------------------------------------------------------
(* The store *)

\* The checkout page before any submission: useState(false), useState(null)
NoCheckout == [pc |-> "form", isSubmitting |-> FALSE, error |-> FALSE,
               lineItems |-> <<>>]

\* A second tab's store: its initial state, with two history flags: whether
\* the last action of either tab was this tab's, and whether the last
\* mutation of either tab was this tab's
NoTab == [items |-> <<>>, isOpen |-> FALSE, wroteLast |-> FALSE,
          mutatedLast |-> FALSE]

\* No handleAddToCart call was made. A call holds the candidate captured at
\* the click and, as history, the items at the click; log is the history of
\* the store actions that ran, in order
NoPending == [handlers |-> [h \in {1, 2} |->
                              [pc |-> "idle", item |-> NoItem, seen |-> <<>>]],
              log |-> <<>>]

\* No request has reached the order-creation route
NoRoute == [pc |-> "idle",
            body |-> [billing |-> "none", line_items |-> Undefined,
                      create_account |-> FALSE, password |-> FALSE],
            customerId |-> 0, status |-> 0,
            customerCalled |-> FALSE, customerFailed |-> FALSE,
            lookupOutcome |-> "none", orderCalled |-> FALSE,
            orderCustomerId |-> Undefined, orderOutcome |-> "none"]

\* The auth store's initial state, with no 'auth-storage' slot; op is the
\* history of the last action
NoAuth == [user |-> Undefined, token |-> Undefined, isAuthenticated |-> FALSE,
           isLoading |-> FALSE, slot |-> Undefined, op |-> "create"]

Init ==
    /\ items = <<>>
    /\ isOpen = FALSE
    /\ computed = Getters
    /\ storage = Undefined
    /\ last = NoRecord
    /\ run = NoRun
    /\ phase = "store"
    /\ idIn = [a |-> NoItem, b |-> NoItem]
    /\ checkout = NoCheckout
    /\ otherTab = NoTab
    /\ pending = NoPending
    /\ route = NoRoute
    /\ auth = NoAuth

AddItem(item) ==
    /\ SetState(addItemItems(items, item), addItemIsOpen)
    /\ \A i \in 1..Len(items') : items'[i].quantity <= MaxLineQty
    /\ last' = Record("addItem",
                     generateCartItemId(item.productId, item.variationId, item.attributes),
                     item.quantity, item)
    /\ run' = RunAfterAdd(item)

RemoveItem(id) ==
    /\ SetState(removeItemItems(items, id), keptIsOpen)
    /\ last' = Record("removeItem", id, 0, NoItem)
    /\ run' = NoRun

UpdateQuantity(id, quantity) ==
    /\ SetState(updateQuantityItems(items, id, quantity), keptIsOpen)
    /\ last' = Record("updateQuantity", id, quantity, NoItem)
    /\ run' = NoRun

ClearCart ==
    /\ SetState(clearCartItems, keptIsOpen)
    /\ last' = Record("clearCart", "", 0, NoItem)
    /\ run' = NoRun

OpenCart ==
    /\ SetState(keptItems, TRUE)
    /\ last' = Record("openCart", "", 0, NoItem)
    /\ UNCHANGED run

CloseCart ==
    /\ SetState(keptItems, FALSE)
    /\ last' = Record("closeCart", "", 0, NoItem)
    /\ UNCHANGED run

ToggleCart ==
    /\ SetState(keptItems, ~isOpen)
    /\ last' = Record("toggleCart", "", 0, NoItem)
    /\ UNCHANGED run

\* A page load creates the store anew from the slot
Reload ==
    /\ items' = hydrate(storage)
    /\ isOpen' = FALSE
    /\ computed' = Getters
    /\ last' = Record("reload", "", 0, NoItem)
    /\ run' = NoRun
    /\ UNCHANGED storage

Next ==
    \/ \E item \in Candidates : AddItem(item) /\ UNCHANGED page
    \/ \E id \in KnownIds : RemoveItem(id) /\ UNCHANGED page
    \/ \E id \in KnownIds, q \in Quantities :
          UpdateQuantity(id, q) /\ UNCHANGED page
    \/ ClearCart /\ UNCHANGED page
    \/ OpenCart /\ UNCHANGED page
    \/ CloseCart /\ UNCHANGED page
    \/ ToggleCart /\ UNCHANGED page
    \/ Reload /\ UNCHANGED page

Spec == Init /\ [][Next]_vars

----------------------------------------------------------------------------
(* SpecId: on a fresh store, addItem is called with a candidate and then    *)
(* with the same candidate whose attributes were inserted in another order *)

InitId ==
    /\ items = <<>>
    /\ isOpen = FALSE
    /\ computed = Getters
    /\ storage = Undefined
    /\ last = NoRecord
    /\ run = NoRun
    /\ phase = "first"
    /\ idIn \in IdScenarios
    /\ checkout = NoCheckout
    /\ otherTab = NoTab
    /\ pending = NoPending
    /\ route = NoRoute
    /\ auth = NoAuth

IdAddFirst ==
    /\ phase = "first"
    /\ AddItem(idIn.a)
    /\ phase' = "second"
    /\ UNCHANGED <<idIn, route, auth, checkout, otherTab, pending>>

IdAddSecond ==
    /\ phase = "second"
    /\ AddItem(idIn.b)
    /\ phase' = "done"
    /\ UNCHANGED <<idIn, route, auth, checkout, otherTab, pending>>

NextId == IdAddFirst \/ IdAddSecond

SpecId == InitId /\ [][NextId]_vars

----------------------------------------------------------------------------
(* Properties *)

RECURSIVE SumPrices(_)
SumPrices(list) ==
    IF list = <<>> THEN 0
    ELSE SumPrices(SubSeq(list, 1, Len(list) - 1))
         + list[Len(list)].price * list[Len(list)].quantity

RECURSIVE SumQuantities(_)
SumQuantities(list) ==
    IF list = <<>> THEN 0
    ELSE SumQuantities(SubSeq(list, 1, Len(list) - 1)) + list[Len(list)].quantity

\* The lines of the variant the current run is about
RunLines == {i \in 1..Len(items) : SameVariant(items[i], run)}

\* C1: after any sequence of addItem, removeItem, updateQuantity and
\* clearCart calls from the empty cart, no two entries of items have the
\* same id.
C1_IdsUnique ==
    \A i, j \in 1..Len(items) : i # j => items[i].id # items[j].id

\* addItem has merged into an existing line while the cart held two lines
C1_Witness ==
    /\ last.op = "addItem"
    /\ last.found
    /\ Len(items) = 2

\* C2: two addItem calls with the same (productId, variationId, attributes),
\* quantities q1 and q2 and no maxQuantity leave exactly one line of that
\* variant, of quantity q1 + q2, and the cart one line longer than before
\* the first call.
C2_MergeLaw ==
    (run.active /\ run.count = 2 /\ run.maxQuantity = Undefined /\ run.sameMax)
    => /\ Cardinality(RunLines) = 1
       /\ \A i \in RunLines : items[i].quantity = run.sum
       /\ Len(items) = run.startLen + 1

\* the second call asked for 1 after 2 (or 2 after 1), beside another line
C2_Witness ==
    /\ run.active /\ run.count = 2 /\ run.maxQuantity = Undefined /\ run.sameMax
    /\ run.sum = 3
    /\ run.startLen = 1

\* C3: in every reachable cart state every item whose maxQuantity is
\* defined has quantity <= maxQuantity, the state right after the first
\* addItem of a variant included.
C3_QuantityWithinMax ==
    \A i \in 1..Len(items) :
        items[i].maxQuantity # Undefined => items[i].quantity <= items[i].maxQuantity[1]

\* C4: after a sequence of addItem calls for one variant that all carry
\* maxQuantity = m, if the quantities asked for sum to more than m the line
\* holds exactly m.
C4_ClampLaw ==
    (run.active /\ run.sameMax /\ run.maxQuantity # Undefined
       /\ run.sum > run.maxQuantity[1])
    => /\ RunLines # {}
       /\ \A i \in RunLines : items[i].quantity = run.maxQuantity[1]

\* C5: with addItem called with quantity >= 1 and removeItem,
\* updateQuantity (any integer quantity) and clearCart called freely, every
\* stored item has quantity >= 1.
C5_QuantityPositive ==
    \A i \in 1..Len(items) : items[i].quantity >= 1

\* updateQuantity was called with a quantity <= 0 for a line of the cart and
\* another line remains
C5_Witness ==
    /\ last.op = "updateQuantity"
    /\ last.quantity <= 0
    /\ last.found
    /\ Len(items) = 1

\* C6: for every cart state, id and quantity q <= 0, updateQuantity(id, q)
\* leaves the items and isOpen that removeItem(id) leaves.
C6_ZeroQuantityRemoval ==
    [][(last'.op = "updateQuantity" /\ last'.quantity <= 0)
        => /\ items' = removeItemItems(items, last'.id)
           /\ isOpen' = isOpen]_vars

\* updateQuantity was called with a negative quantity for a line of a
\* two-line cart while the drawer was open
C6_Witness ==
    /\ last.op = "updateQuantity"
    /\ last.quantity < 0
    /\ last.found
    /\ Len(items) = 1
    /\ isOpen

\* C7: generateCartItemId gives the same id for every insertion order of the
\* same attributes, so two addItem calls that differ only in that order
\* collapse into one line.
C7_OrderIndependentId ==
    phase = "done"
    => /\ generateCartItemId(idIn.a.productId, idIn.a.variationId, idIn.a.attributes)
          = generateCartItemId(idIn.b.productId, idIn.b.variationId, idIn.b.attributes)
       /\ Len(items) = 1
       /\ items[1].quantity = idIn.a.quantity + idIn.b.quantity

\* both calls were made, with three attributes inserted in different orders
C7_Witness ==
    /\ phase = "done"
    /\ idIn.a.attributes # idIn.b.attributes
    /\ Len(idIn.a.attributes[1]) = 3

\* C8: every read of the cart total (the store's total and subtotal and
\* the useCartTotal selector) equals the sum of price * quantity over the
\* current items.
C8_TotalPurity ==
    /\ StoreTotal = SumPrices(items)
    /\ StoreSubtotal = SumPrices(items)
    /\ useCartTotal = SumPrices(items)

RECURSIVE Without(_, _)
Without(list, id) ==
    IF list = <<>> THEN <<>>
    ELSE IF list[Len(list)].id = id
    THEN Without(SubSeq(list, 1, Len(list) - 1), id)
    ELSE Append(Without(SubSeq(list, 1, Len(list) - 1), id), list[Len(list)])

C12_ClearCartEmpties ==
    last.op = "clearCart"
    => /\ items = <<>>
       /\ useCartTotal = 0
       /\ useCartItemCount = 0

\* clearCart was called on a two-line cart
C12_Witness ==
    /\ last.op = "clearCart"
    /\ last.prevLen = 2

\* C13: after every addItem call, whether it appends a line or merges into
\* one (a merge whose clamped quantity is unchanged included), isOpen is
\* true.
C13_AddItemOpensCart ==
    last.op = "addItem" => isOpen

\* addItem merged into a line whose quantity the clamp left as it was
C13_Witness ==
    /\ last.op = "addItem"
    /\ last.found
    /\ \E i \in 1..Len(items) :
          /\ items[i].id = last.id
          /\ items[i].quantity = last.prevQuantity
    /\ isOpen

----------------------------------------------------------------------------
(* SpecBoot: the page is loaded with a 'cart-storage' slot that no store    *)
(* of this version wrote: none, text that is not JSON, or a document with  *)
(* another version or with none; after the start the cart is used as usual *)

\* Item lists an earlier deployment could have saved
SavedItems == {<<>>} \cup {addItemItems(<<>>, c) : c \in Candidates}

OtherVersions == {StorageVersion - 1, StorageVersion + 1}

CorruptSlot == Some([wellFormed |-> FALSE, doc |-> [state |-> [items |-> <<>>]]])

ForeignSlots ==
    {Undefined, CorruptSlot}
    \cup {SlotText([state |-> [items |-> stringifyItems(l)], version |-> v]) :
             l \in SavedItems, v \in OtherVersions}
    \cup {SlotText([state |-> [items |-> stringifyItems(l)]]) : l \in SavedItems}

InitBoot ==
    /\ items = <<>>
    /\ isOpen = FALSE
    /\ computed = Getters
    /\ storage \in ForeignSlots
    /\ last = NoRecord
    /\ run = NoRun
    /\ phase = "boot"
    /\ idIn = [a |-> NoItem, b |-> NoItem]
    /\ checkout = NoCheckout
    /\ otherTab = NoTab
    /\ pending = NoPending
    /\ route = NoRoute
    /\ auth = NoAuth

\* The first creation of the store in the page
Boot ==
    /\ phase = "boot"
    /\ phase' = "store"
    /\ items' = hydrate(storage)
    /\ isOpen' = FALSE
    /\ computed' = Getters
    /\ last' = Record("boot", "", 0, NoItem)
    /\ run' = NoRun
    /\ UNCHANGED <<storage, idIn, route, auth, checkout, otherTab, pending>>

NextBoot ==
    \/ Boot
    \/ phase = "store" /\ Next

SpecBoot == InitBoot /\ [][NextBoot]_vars

----------------------------------------------------------------------------

Mutations == {"addItem", "removeItem", "updateQuantity", "clearCart"}

\* C14: after every completed cart mutation (addItem, removeItem,
\* updateQuantity, clearCart) the 'cart-storage' snapshot holds exactly the
\* current in-memory items, and the snapshot never contains isOpen.
C14_SnapshotIsItems ==
    /\ last.op \in Mutations
       => /\ storage # Undefined
          /\ storage[1].wellFormed
          /\ parseItems(storage[1].doc.state.items) = items
    /\ storage # Undefined => DOMAIN storage[1].doc.state = {"items"}

\* updateQuantity changed a line of an open two-line cart, one of whose
\* lines has no maxQuantity, and the snapshot holds the two lines
C14_Witness ==
    /\ last.op = "updateQuantity"
    /\ last.found
    /\ last.prevQuantity # last.quantity
    /\ isOpen
    /\ Len(items) = 2
    /\ \E i \in 1..2 : items[i].maxQuantity = Undefined
    /\ Len(storage[1].doc.state.items) = 2

\* C15: for every reachable cart state, a fresh cart rehydrated from the
\* saved snapshot has an item list identical to the original, and isOpen
\* false.
C15_RoundTrip ==
    [][last'.op = "reload" => items' = items /\ ~isOpen']_vars

\* C16: on start-up with a slot that is missing, corrupt, or of a version
\* other than 1, start-up does not fail, the cart starts with the empty item
\* list and adopts nothing from the slot, and it is operable afterwards: an
\* addItem right after the start puts its line in the cart and saves it.
C16_ForeignSlotStartsEmpty ==
    /\ [](phase = "boot" => ENABLED Boot)
    /\ [](last.op = "boot" => items = <<>> /\ ~isOpen /\ computed = Getters)
    /\ [][last.op = "boot" /\ last'.op = "addItem"
           => /\ Len(items') = 1
              /\ items'[1].id = last'.id
              /\ items'[1].quantity = last'.quantity
              /\ parseItems(storage'[1].doc.state.items) = items']_vars

\* the store started from a slot of another version that holds a line, and
\* its cart is empty
C16_Witness ==
    /\ last.op = "boot"
    /\ storage # Undefined
    /\ storage[1].wellFormed
    /\ "version" \in DOMAIN storage[1].doc
    /\ storage[1].doc.version # StorageVersion
    /\ Len(storage[1].doc.state.items) = 1
    /\ items = <<>>

----------------------------------------------------------------------------
(* SpecCheckout: the checkout page over the cart store. The order form is  *)
(* submitted, the order request is answered or fails, and the cart can be  *)
(* changed from the product page and the cart drawer at any time           *)

\* One element of line_items
lineItem(item) ==
    [product_id |-> item.productId,
     variation_id |-> IF Truthy(item.variationId) THEN item.variationId[1] ELSE 0,
     quantity |-> item.quantity]

\* items.map(...)
lineItems(list) == [i \in 1..Len(list) |-> lineItem(list[i])]

\* The ways the order request ends: response.ok, a response that is not ok,
\* and a fetch or response.json() that throws
Outcomes == {"ok", "notOk", "threw"}

onSubmitClearsAlways(outcome) == TRUE

\* clearCart() is reached only when nothing was thrown before it
onSubmitClears(outcome) == outcome = "ok"

onSubmitErrorNever(outcome) == FALSE

\* setError(null) at the start, setError(message) in the catch block
onSubmitError(outcome) == outcome # "ok"

\* What the product page adds in this scenario: no stock ceiling
CheckoutCandidates == {Candidate(v, q, Undefined) : v \in Variants, q \in 1..MaxQty}

InitCheckout ==
    /\ items = <<>>
    /\ isOpen = FALSE
    /\ computed = Getters
    /\ storage = Undefined
    /\ last = NoRecord
    /\ run = NoRun
    /\ phase = "store"
    /\ idIn = [a |-> NoItem, b |-> NoItem]
    /\ checkout = NoCheckout
    /\ otherTab = NoTab
    /\ pending = NoPending
    /\ route = NoRoute
    /\ auth = NoAuth

\* onSubmit up to the await of fetch; the form is rendered only for a cart
\* with lines, and its button is disabled while isSubmitting
Submit ==
    /\ checkout.pc = "form"
    /\ ~checkout.isSubmitting
    /\ Len(items) # 0
    /\ checkout' = [pc |-> "awaiting", isSubmitting |-> TRUE, error |-> FALSE,
                    lineItems |-> lineItems(items)]
    /\ last' = Record("submit", "", 0, NoItem)
    /\ UNCHANGED <<items, isOpen, computed, storage, run, phase, idIn, route, auth,
                   otherTab, pending>>

\* onSubmit from the answer of the order request to its end
Response(outcome) ==
    /\ checkout.pc = "awaiting"
    /\ IF onSubmitClears(outcome)
       THEN SetState(clearCartItems, keptIsOpen)
       ELSE UNCHANGED <<items, isOpen, computed, storage>>
    /\ checkout' = [pc |-> IF outcome = "ok" THEN "confirmation" ELSE "form",
                    isSubmitting |-> FALSE,
                    error |-> onSubmitError(outcome),
                    lineItems |-> checkout.lineItems]
    /\ last' = Record(IF outcome = "ok" THEN "orderOk" ELSE "orderFailed", "", 0, NoItem)
    /\ run' = NoRun
    /\ UNCHANGED <<phase, idIn, route, auth, otherTab, pending>>

\* The checkout page is opened again after an order
VisitCheckout ==
    /\ checkout.pc = "confirmation"
    /\ checkout' = NoCheckout
    /\ last' = Record("visit", "", 0, NoItem)
    /\ UNCHANGED <<items, isOpen, computed, storage, run, phase, idIn, route, auth,
                   otherTab, pending>>

\* The cart drawer: the remove button and the - and + buttons of a line
DrawerRemove(i) == RemoveItem(items[i].id)

DrawerMinus(i) == UpdateQuantity(items[i].id, items[i].quantity - 1)

DrawerPlus(i) ==
    /\ ~(Truthy(items[i].maxQuantity) /\ items[i].quantity >= items[i].maxQuantity[1])
    /\ items[i].quantity < MaxLineQty
    /\ UpdateQuantity(items[i].id, items[i].quantity + 1)

NextCheckout ==
    \/ Submit
    \/ \E outcome \in Outcomes : Response(outcome)
    \/ VisitCheckout
    \/ \E item \in CheckoutCandidates : AddItem(item) /\ UNCHANGED page
    \/ \E i \in 1..Len(items) : DrawerRemove(i) /\ UNCHANGED page
    \/ \E i \in 1..Len(items) : DrawerMinus(i) /\ UNCHANGED page
    \/ \E i \in 1..Len(items) : DrawerPlus(i) /\ UNCHANGED page

SpecCheckout == InitCheckout /\ [][NextCheckout]_vars

\* C17: on submission every cart item is sent as one (product_id,
\* variation_id, quantity) line, in cart order; when the order request
\* succeeds the cart is empty once the page is the confirmation page; and
\* the end of a request that did not succeed leaves the items as they were.
C17_CheckoutSendsAndClears ==
    /\ [](last.op = "submit"
           => /\ Len(checkout.lineItems) = Len(items)
              /\ \A i \in 1..Len(items) :
                    /\ checkout.lineItems[i].product_id = items[i].productId
                    /\ checkout.lineItems[i].variation_id =
                          (IF items[i].variationId = Undefined THEN 0
                           ELSE items[i].variationId[1])
                    /\ checkout.lineItems[i].quantity = items[i].quantity)
    /\ [](last.op = "orderOk" => items = <<>> /\ checkout.pc = "confirmation")
    /\ [][last'.op = "orderFailed" => items' = items /\ checkout'.pc = "form"]_vars

\* an order of two lines, one with a variation and one without, succeeded
\* and the cart is empty
C17_Witness ==
    /\ last.op = "orderOk"
    /\ last.prevLen = 2
    /\ Len(checkout.lineItems) = 2
    /\ \E i \in 1..2 : checkout.lineItems[i].variation_id = 0
    /\ \E i \in 1..2 : checkout.lineItems[i].variation_id # 0
    /\ items = <<>>

----------------------------------------------------------------------------
(* SpecTabs: two tabs of the shop, each with its own cart store, both      *)
(* writing the 'cart-storage' slot of the one localStorage; the first tab  *)
(* is the store of Spec, the second is otherTab                            *)

TabsCandidates == {Candidate(v, 1, Undefined) : v \in Variants}

InitTabs ==
    /\ items = <<>>
    /\ isOpen = FALSE
    /\ computed = Getters
    /\ storage = Undefined
    /\ last = NoRecord
    /\ run = NoRun
    /\ phase = "store"
    /\ idIn = [a |-> NoItem, b |-> NoItem]
    /\ checkout = NoCheckout
    /\ otherTab = NoTab
    /\ pending = NoPending
    /\ route = NoRoute
    /\ auth = NoAuth

\* The rest of a step of the first tab
FirstTab(mutation) ==
    /\ \A i \in 1..Len(items') : items'[i].quantity <= MaxTabQty
    /\ otherTab' = [otherTab EXCEPT !.wroteLast = FALSE,
                                    !.mutatedLast = IF mutation THEN FALSE ELSE @]
    /\ UNCHANGED <<phase, idIn, route, auth, checkout, pending>>

\* set of the second tab's store, with the write of its snapshot
OtherSetState(op, newItems, newIsOpen) ==
    /\ \A i \in 1..Len(newItems) : newItems[i].quantity <= MaxTabQty
    /\ otherTab' = [items |-> newItems, isOpen |-> newIsOpen, wroteLast |-> TRUE,
                    mutatedLast |-> IF op \in Mutations THEN TRUE
                                    ELSE otherTab.mutatedLast]
    /\ storage' = persistSnapshot(newItems)
    /\ last' = [NoRecord EXCEPT !.op = "otherTab"]
    /\ UNCHANGED <<items, isOpen, computed, run, phase, idIn, route, auth, checkout, pending>>

OtherAddItem(item) ==
    OtherSetState("addItem", addItemItems(otherTab.items, item), addItemIsOpen)

OtherRemoveItem(id) ==
    OtherSetState("removeItem", removeItemItems(otherTab.items, id), otherTab.isOpen)

OtherUpdateQuantity(id, quantity) ==
    OtherSetState("updateQuantity", updateQuantityItems(otherTab.items, id, quantity),
                  otherTab.isOpen)

OtherClearCart == OtherSetState("clearCart", clearCartItems, otherTab.isOpen)

OtherCloseCart == OtherSetState("closeCart", otherTab.items, FALSE)

NextTabs ==
    \/ \E item \in TabsCandidates : AddItem(item) /\ FirstTab(TRUE)
    \/ \E i \in 1..Len(items) : DrawerRemove(i) /\ FirstTab(TRUE)
    \/ \E i \in 1..Len(items) : DrawerMinus(i) /\ FirstTab(TRUE)
    \/ ClearCart /\ FirstTab(TRUE)
    \/ CloseCart /\ FirstTab(FALSE)
    \/ \E item \in TabsCandidates : OtherAddItem(item)
    \/ \E i \in 1..Len(otherTab.items) : OtherRemoveItem(otherTab.items[i].id)
    \/ \E i \in 1..Len(otherTab.items) :
          OtherUpdateQuantity(otherTab.items[i].id, otherTab.items[i].quantity - 1)
    \/ OtherClearCart
    \/ OtherCloseCart

SpecTabs == InitTabs /\ [][NextTabs]_vars

\* Each tab's items are changed only by that tab's own actions
TabsIsolated ==
    /\ otherTab'.wroteLast => items' = items
    /\ ~otherTab'.wroteLast => otherTab'.items = otherTab.items

\* C18 as stated: with two tabs sharing the slot, each tab's items are
\* changed only by that tab's own operations, and the slot holds exactly
\* the items of the tab that mutated last.
C18_SlotOfLastMutator ==
    /\ [][TabsIsolated]_vars
    /\ [](storage # Undefined
           => parseItems(storage[1].doc.state.items) =
                 (IF otherTab.mutatedLast THEN otherTab.items ELSE items))

\* C18 amended: with two tabs sharing the slot, each tab's items are changed
\* only by that tab's own operations, and the slot holds exactly the items
\* of the tab whose store action ran last, be it a mutation or a change of
\* isOpen; the other tab's writes are overwritten, not merged.
C18_SlotOfLastWriter ==
    /\ [][TabsIsolated]_vars
    /\ [](storage # Undefined
           => parseItems(storage[1].doc.state.items) =
                 (IF otherTab.wroteLast THEN otherTab.items ELSE items))

\* the second tab mutated last, then the first tab closed its drawer: the
\* slot holds the first tab's line, not the second tab's
C18_Witness ==
    /\ otherTab.mutatedLast
    /\ ~otherTab.wroteLast
    /\ last.op = "closeCart"
    /\ Len(items) = 1
    /\ Len(otherTab.items) = 1
    /\ items # otherTab.items
    /\ parseItems(storage[1].doc.state.items) = items

----------------------------------------------------------------------------
(* SpecAsync: handleAddToCart is called twice (two clicks, or two product  *)
(* components); each call waits 300 ms and then calls addItem with the     *)
(* candidate of its click, while the cart drawer is in use                 *)

\* The quantity selector is at 1 or at the largest quantity
AsyncCandidates == {Candidate(v, q, Undefined) : v \in Variants, q \in {1, MaxQty}}

InitAsync ==
    /\ items = <<>>
    /\ isOpen = FALSE
    /\ computed = Getters
    /\ storage = Undefined
    /\ last = NoRecord
    /\ run = NoRun
    /\ phase = "store"
    /\ idIn = [a |-> NoItem, b |-> NoItem]
    /\ checkout = NoCheckout
    /\ otherTab = NoTab
    /\ pending = NoPending
    /\ route = NoRoute
    /\ auth = NoAuth

LogEntry(op, id, quantity, item) ==
    [op |-> op, id |-> id, quantity |-> quantity, item |-> item]

updaterStateAtClick(current, seen) == seen

\* set((state) => ...): the updater gets the state of the store at the call
updaterState(current, seen) == current

\* handleAddToCart up to the await of the timer
Click(h, item) ==
    /\ pending.handlers[h].pc # "waiting"
    /\ Len(pending.log) < MaxLog
    /\ pending' = [pending EXCEPT !.handlers[h] =
                      [pc |-> "waiting", item |-> item, seen |-> items]]
    /\ last' = Record("click", "", 0, NoItem)
    /\ UNCHANGED <<items, isOpen, computed, storage, run, phase, idIn, route, auth,
                   checkout, otherTab>>

\* handleAddToCart after the timer: addItem, setIsAdding(false)
TimerFires(h) ==
    /\ pending.handlers[h].pc = "waiting"
    /\ Len(pending.log) < MaxLog
    /\ SetState(addItemItems(updaterState(items, pending.handlers[h].seen),
                             pending.handlers[h].item),
                addItemIsOpen)
    /\ \A i \in 1..Len(items') : items'[i].quantity <= MaxLineQty
    /\ last' = Record("addItem",
                     generateCartItemId(pending.handlers[h].item.productId,
                                        pending.handlers[h].item.variationId,
                                        pending.handlers[h].item.attributes),
                     pending.handlers[h].item.quantity, pending.handlers[h].item)
    /\ run' = NoRun
    /\ pending' = [pending EXCEPT
                      !.handlers[h].pc = "done",
                      !.log = Append(@, LogEntry("addItem", "", 0,
                                                pending.handlers[h].item))]
    /\ UNCHANGED <<phase, idIn, route, auth, checkout, otherTab>>

\* A button of the cart drawer is clicked while calls are under way
AsyncDrawerRemove(i) ==
    /\ Len(pending.log) < MaxLog
    /\ DrawerRemove(i)
    /\ pending' = [pending EXCEPT
                      !.log = Append(@, LogEntry("removeItem", items[i].id, 0, NoItem))]
    /\ UNCHANGED <<phase, idIn, route, auth, checkout, otherTab>>

AsyncDrawerMinus(i) ==
    /\ Len(pending.log) < MaxLog
    /\ DrawerMinus(i)
    /\ pending' = [pending EXCEPT
                      !.log = Append(@, LogEntry("updateQuantity", items[i].id,
                                                items[i].quantity - 1, NoItem))]
    /\ UNCHANGED <<phase, idIn, route, auth, checkout, otherTab>>

NextAsync ==
    \/ \E h \in {1, 2}, item \in AsyncCandidates : Click(h, item)
    \/ \E h \in {1, 2} : TimerFires(h)
    \/ \E i \in 1..Len(items) : AsyncDrawerRemove(i)
    \/ \E i \in 1..Len(items) : AsyncDrawerMinus(i)

SpecAsync == InitAsync /\ [][NextAsync]_vars

\* The cart after the logged actions, run one after the other from the
\* empty cart
RECURSIVE Replay(_)
Replay(log) ==
    IF log = <<>> THEN <<>>
    ELSE LET before == Replay(SubSeq(log, 1, Len(log) - 1))
             e == log[Len(log)]
         IN  CASE e.op = "addItem" -> addItemItems(before, e.item)
               [] e.op = "removeItem" -> removeItemItems(before, e.id)
               [] e.op = "updateQuantity" -> updateQuantityItems(before, e.id, e.quantity)

\* The quantities the logged addItem calls asked for, for one id
RECURSIVE Asked(_, _)
Asked(log, id) ==
    IF log = <<>> THEN 0
    ELSE Asked(SubSeq(log, 1, Len(log) - 1), id)
         + (IF /\ log[Len(log)].op = "addItem"
               /\ generateCartItemId(log[Len(log)].item.productId,
                                     log[Len(log)].item.variationId,
                                     log[Len(log)].item.attributes) = id
            THEN log[Len(log)].item.quantity ELSE 0)

OnlyAdds(log) == \A k \in 1..Len(log) : log[k].op = "addItem"

\* C19: when asynchronous handlers overlap, every store action works on the
\* state the action before it left: the items are those of the actions run
\* one after the other in the order they ran, and while only addItem calls
\* without a stock ceiling have run no quantity is lost: each line holds
\* the sum of the quantities asked for its id.
C19_AtomicOperations ==
    /\ items = Replay(pending.log)
    /\ OnlyAdds(pending.log)
       => /\ \A i \in 1..Len(items) :
                items[i].quantity = Asked(pending.log, items[i].id)
          /\ \A k \in 1..Len(pending.log) :
                \E i \in 1..Len(items) :
                   items[i].id = generateCartItemId(pending.log[k].item.productId,
                                                    pending.log[k].item.variationId,
                                                    pending.log[k].item.attributes)

\* two calls for the same variant were both clicked on the empty cart, both
\* timers fired, and the line holds the sum of the two quantities
C19_Witness ==
    /\ pending.handlers[1].pc = "done"
    /\ pending.handlers[2].pc = "done"
    /\ pending.handlers[1].seen = <<>>
    /\ pending.handlers[2].seen = <<>>
    /\ Len(pending.log) = 2
    /\ Len(items) = 1
    /\ items[1].quantity =
          pending.handlers[1].item.quantity + pending.handlers[2].item.quantity

----------------------------------------------------------------------------

\* A list of complete lines, no id twice, every quantity a positive integer
ShapedItems(list) ==
    /\ DOMAIN list = 1..Len(list)
    /\ \A i \in 1..Len(list) :
          /\ DOMAIN list[i] = ItemKeys
          /\ list[i].quantity \in Nat \ {0}
          /\ list[i].price \in Nat
    /\ \A i, j \in 1..Len(list) : list[i].id = list[j].id => i = j

\* Shaped, and each line under the id derived from it
WellFormedItems(list) ==
    /\ ShapedItems(list)
    /\ \A i \in 1..Len(list) :
          list[i].id = generateCartItemId(list[i].productId, list[i].variationId,
                                          list[i].attributes)

----------------------------------------------------------------------------

\* The key:value pairs of an attribute object, in the order of their keys
PairsByKey(attributes) ==
    LET obj == attributes[1]
        valueOf(k) == obj[CHOOSE i \in 1..Len(obj) : obj[i][1] = k][2]
        keys == SelectSeq(KeyCollation,
                          LAMBDA k : \E i \in 1..Len(obj) : obj[i][1] = k)
    IN [n \in 1..Len(keys) |-> keys[n] \o ":" \o valueOf(keys[n])]

\* The id as the derivation algorithm states it, given whether the
\* variation id counts as present
DerivedId(productId, variationId, attributes, present) ==
    ToString(productId)
    \o (IF present THEN "-" \o ToString(variationId[1]) ELSE "")
    \o (IF attributes # Undefined /\ Len(attributes[1]) > 0
        THEN "-" \o join(PairsByKey(attributes), "-") ELSE "")

\* C21 as stated: generateCartItemId returns stringOf(productId), then
\* "-"+variationId whenever variationId is present, for every integer value
\* of it, then for non-empty attributes "-" and the key:value pairs sorted
\* by key and joined by "-"; the line addItem creates carries that id.
C21_IdAsDerivedWhenPresent ==
    /\ generateCartItemId(idIn.a.productId, idIn.a.variationId, idIn.a.attributes)
       = DerivedId(idIn.a.productId, idIn.a.variationId, idIn.a.attributes,
                   idIn.a.variationId # Undefined)
    /\ phase \in {"second", "done"}
       => items[1].id = DerivedId(idIn.a.productId, idIn.a.variationId,
                                  idIn.a.attributes, idIn.a.variationId # Undefined)

\* C21 amended: the same, with "-"+variationId appended whenever
\* variationId is present and is not 0.
C21_IdAsDerivedWhenNonZero ==
    /\ generateCartItemId(idIn.a.productId, idIn.a.variationId, idIn.a.attributes)
       = DerivedId(idIn.a.productId, idIn.a.variationId, idIn.a.attributes,
                   idIn.a.variationId # Undefined /\ idIn.a.variationId[1] # 0)
    /\ phase \in {"second", "done"}
       => items[1].id = DerivedId(idIn.a.productId, idIn.a.variationId,
                                  idIn.a.attributes,
                                  idIn.a.variationId # Undefined
                                  /\ idIn.a.variationId[1] # 0)

\* addItem created a line for a candidate with variationId 0 and three
\* attributes inserted out of key order; its id has no variation part
C21_Witness ==
    /\ phase = "second"
    /\ idIn.a.variationId = Some(0)
    /\ idIn.a.attributes # Undefined
    /\ Len(idIn.a.attributes[1]) = 3
    /\ idIn.a.attributes[1][1][1] = "Size"
    /\ Len(items) = 1
    /\ items[1].id = ToString(idIn.a.productId) \o "-"
                     \o join(PairsByKey(idIn.a.attributes), "-")

DrawerOps == {"openCart", "closeCart", "toggleCart"}

\* C22: items changes only through addItem, removeItem, updateQuantity and
\* clearCart, and when the store is created from the slot; openCart,
\* closeCart and toggleCart leave items unchanged in every state.
C22_ItemsChangeOnlyByMutations ==
    [][/\ items' # items => last'.op \in Mutations \cup {"boot", "reload"}
       /\ last'.op \in DrawerOps => items' = items]_vars

\* toggleCart was called on a cart of two lines
C22_Witness ==
    /\ last.op = "toggleCart"
    /\ last.prevLen = 2
    /\ Len(items) = 2

\* C30: removeItem, updateQuantity and clearCart leave isOpen unchanged in
\* every state; a store's isOpen changes only through addItem (to true),
\* openCart (to true), closeCart (to false) and toggleCart (negation); a
\* store created by a page load starts closed.
C30_IsOpenChangesOnlyByDrawer ==
    [][/\ last'.op \in {"removeItem", "updateQuantity", "clearCart"}
          => isOpen' = isOpen
       /\ last'.op \in {"addItem", "openCart"} => isOpen'
       /\ last'.op = "closeCart" => ~isOpen'
       /\ last'.op = "toggleCart" => isOpen' = ~isOpen
       /\ last'.op \in {"boot", "reload"} => ~isOpen'
       /\ isOpen' # isOpen
          => last'.op \in DrawerOps \cup {"addItem", "boot", "reload"}]_vars

\* clearCart emptied a cart of two lines while the drawer was open, and the
\* drawer is still open
C30_Witness ==
    /\ last.op = "clearCart"
    /\ last.prevLen = 2
    /\ isOpen

----------------------------------------------------------------------------
(* SpecDistinct: on a fresh store, addItem is called with two candidates   *)
(* that are different variants; attribute values are the option names the *)
(* shop defines, which may contain '-' and ':'                             *)

DistinctAttrValues == {"M", "Blue", "Blue-Size:M"}

DistinctAttrObjects ==
    {<< <<k, x>> >> : k \in {"Color", "Size"}, x \in DistinctAttrValues}
    \cup {<< <<"Color", x>>, <<"Size", y>> >> : x, y \in DistinctAttrValues}

DistinctVariations == {Undefined} \cup {Some(n) : n \in 1..MaxVariationId}

DistinctCandidates ==
    {IdCandidate(prod, v, attrs) :
        prod \in IdProducts, v \in DistinctVariations,
        attrs \in {Undefined} \cup {Some(obj) : obj \in DistinctAttrObjects}}

DistinctScenarios ==
    {sc \in [a : DistinctCandidates, b : DistinctCandidates] :
        ~SameVariant(sc.a, sc.b)}

InitDistinct ==
    /\ items = <<>>
    /\ isOpen = FALSE
    /\ computed = Getters
    /\ storage = Undefined
    /\ last = NoRecord
    /\ run = NoRun
    /\ phase = "first"
    /\ idIn \in DistinctScenarios
    /\ checkout = NoCheckout
    /\ otherTab = NoTab
    /\ pending = NoPending
    /\ route = NoRoute
    /\ auth = NoAuth

SpecDistinct == InitDistinct /\ [][NextId]_vars

\* C24: two addItem candidates that differ in productId, in variationId or
\* in their attribute mapping get different ids from generateCartItemId and
\* occupy separate lines, also when attribute values contain '-' or ':'.
C24_DistinctVariantsDistinctIds ==
    phase = "done"
    => /\ generateCartItemId(idIn.a.productId, idIn.a.variationId, idIn.a.attributes)
          # generateCartItemId(idIn.b.productId, idIn.b.variationId, idIn.b.attributes)
       /\ Len(items) = 2
       /\ items[1].id # items[2].id

----------------------------------------------------------------------------
(* SpecRoute: POST /api/orders. A request body arrives, the route checks   *)
(* it, creates a customer when an account is asked for, creates the order *)
(* and answers; every call to WooCommerce succeeds or throws               *)

\* The state of the cart store, which the route and the auth store leave
\* alone
cartStore == <<items, isOpen, computed, storage, last, run>>

\* Request bodies: billing is missing, or present without or with an email;
\* line_items is missing or a list of some length
RouteBodies ==
    [billing : {"none", "noEmail", "withEmail"},
     line_items : {Undefined} \cup {Some(n) : n \in 0..MaxOrderLines},
     create_account : BOOLEAN,
     password : BOOLEAN]

\* customer.id of a customer that customers.create made, and of one that
\* getByEmail found
NewCustomerId == 7
ExistingCustomerId == 3

validBodyBillingOnly(body) == body.billing # "none"

\* !(!body.billing || !body.line_items?.length)
validBody(body) == body.billing # "none" /\ Truthy(body.line_items)

\* body.create_account && body.password && body.billing.email
wantsAccount(body) ==
    body.create_account /\ body.password /\ body.billing = "withEmail"

\* wooCommerce.orders.create is called, with customer_id: customerId || undefined
callOrder(r) ==
    [r EXCEPT !.pc = "orders.create", !.orderCalled = TRUE,
              !.orderCustomerId = IF r.customerId # 0 THEN Some(r.customerId)
                                  ELSE Undefined]

InitRoute ==
    /\ items = <<>>
    /\ isOpen = FALSE
    /\ computed = Getters
    /\ storage = Undefined
    /\ last = NoRecord
    /\ run = NoRun
    /\ phase = "store"
    /\ idIn = [a |-> NoItem, b |-> NoItem]
    /\ checkout = NoCheckout
    /\ otherTab = NoTab
    /\ pending = NoPending
    /\ route = NoRoute
    /\ auth = NoAuth

\* POST up to its first call to WooCommerce, or to the 400 answer
Post(body) ==
    /\ route.pc \in {"idle", "done"}
    /\ route' = IF ~validBody(body)
                THEN [NoRoute EXCEPT !.body = body, !.pc = "done", !.status = 400]
                ELSE IF wantsAccount(body)
                THEN [NoRoute EXCEPT !.body = body, !.pc = "customers.create",
                                     !.customerCalled = TRUE]
                ELSE callOrder([NoRoute EXCEPT !.body = body])
    /\ UNCHANGED <<cartStore, phase, idIn, checkout, otherTab, pending, auth>>

\* customers.create returns or throws; when it throws, the catch block
\* calls customers.getByEmail
CustomerAnswer(outcome) ==
    /\ route.pc = "customers.create"
    /\ route' = IF outcome = "ok"
                THEN callOrder([route EXCEPT !.customerId = NewCustomerId])
                ELSE [route EXCEPT !.pc = "customers.getByEmail",
                                   !.customerFailed = TRUE]
    /\ UNCHANGED <<cartStore, phase, idIn, checkout, otherTab, pending, auth>>

\* customers.getByEmail returns a customer or null, or throws; a throw
\* inside the catch block leaves the inner try and reaches the outer catch
LookupAnswer(outcome) ==
    /\ route.pc = "customers.getByEmail"
    /\ route' = CASE outcome = "found" ->
                       callOrder([route EXCEPT !.customerId = ExistingCustomerId,
                                               !.lookupOutcome = outcome])
                  [] outcome = "null" ->
                       callOrder([route EXCEPT !.lookupOutcome = outcome])
                  [] outcome = "threw" ->
                       [route EXCEPT !.pc = "done", !.status = 500,
                                     !.lookupOutcome = outcome]
    /\ UNCHANGED <<cartStore, phase, idIn, checkout, otherTab, pending, auth>>

\* orders.create returns or throws
OrderAnswer(outcome) ==
    /\ route.pc = "orders.create"
    /\ route' = [route EXCEPT !.pc = "done",
                              !.status = IF outcome = "ok" THEN 200 ELSE 500,
                              !.orderOutcome = outcome]
    /\ UNCHANGED <<cartStore, phase, idIn, checkout, otherTab, pending, auth>>

NextRoute ==
    \/ \E body \in RouteBodies : Post(body)
    \/ \E outcome \in {"ok", "threw"} : CustomerAnswer(outcome)
    \/ \E outcome \in {"found", "null", "threw"} : LookupAnswer(outcome)
    \/ \E outcome \in {"ok", "threw"} : OrderAnswer(outcome)

SpecRoute == InitRoute /\ [][NextRoute]_vars

\* C23: when an account is asked for and customers.create fails, whatever
\* the reason and whatever the lookup by email does, the order is still
\* created, without a customer id unless the lookup found one, and the
\* route answers with an error only if creating the order failed.
C23_OrderDespiteCustomerFailure ==
    route.pc = "done" /\ route.customerFailed
    => /\ route.orderCalled
       /\ route.lookupOutcome # "found" => route.orderCustomerId = Undefined
       /\ route.status = 500 => route.orderOutcome = "threw"

----------------------------------------------------------------------------
(* SpecMerge: addItem is called again and again with candidates whose      *)
(* price and stock ceiling are those of the product at the time of the    *)
(* call, so a later candidate of a variant can differ from the line        *)

\* The price of a variant is the one of Variants or has risen since; the
\* quantity selector is at 1 or at the largest quantity
MergeCandidates ==
    {[Candidate(v, q, m) EXCEPT !.price = v.price + rise] :
        v \in Variants, q \in {1, MaxQty}, m \in StockCeilings, rise \in {0, 1}}

InitMerge ==
    /\ items = <<>>
    /\ isOpen = FALSE
    /\ computed = Getters
    /\ storage = Undefined
    /\ last = NoRecord
    /\ run = NoRun
    /\ phase = "store"
    /\ idIn = [a |-> NoItem, b |-> NoItem]
    /\ checkout = NoCheckout
    /\ otherTab = NoTab
    /\ pending = NoPending
    /\ route = NoRoute
    /\ auth = NoAuth

NextMerge ==
    \/ \E item \in MergeCandidates : AddItem(item) /\ UNCHANGED page
    \/ \E i \in 1..Len(items) : DrawerRemove(i) /\ UNCHANGED page

SpecMerge == InitMerge /\ [][NextMerge]_vars

\* The quantity a merge stores: the sum, or the line's own maxQuantity when
\* that is a number other than 0 and the sum exceeds it
MergedQuantity(line, asked) ==
    IF line.maxQuantity # Undefined /\ line.maxQuantity[1] # 0
       /\ line.quantity + asked > line.maxQuantity[1]
    THEN line.maxQuantity[1]
    ELSE line.quantity + asked

\* C25: when addItem merges into an existing line only that line's quantity
\* changes: its position, its price and its maxQuantity stay those of the
\* first add, the clamp uses the line's own maxQuantity, and every other
\* line is unchanged; when addItem creates a line, the line is appended
\* after all existing lines and holds the candidate's data.
C25_MergeChangesQuantityOnly ==
    [][last'.op = "addItem"
        => IF last'.found
           THEN /\ Len(items') = Len(items)
                /\ \A i \in 1..Len(items) :
                      items'[i] =
                         IF items[i].id = last'.id
                         THEN [items[i] EXCEPT
                                  !.quantity = MergedQuantity(items[i], last'.quantity)]
                         ELSE items[i]
           ELSE /\ Len(items') = Len(items) + 1
                /\ SubSeq(items', 1, Len(items)) = items
                /\ items'[Len(items')] =
                      [id |-> last'.id,
                       productId |-> last'.item.productId,
                       variationId |-> last'.item.variationId,
                       attributes |-> last'.item.attributes,
                       price |-> last'.item.price,
                       quantity |-> last'.item.quantity,
                       maxQuantity |-> last'.item.maxQuantity]]_vars

\* addItem merged into the first of two lines a candidate with another
\* price and another maxQuantity than the line has, and the line kept its own
C25_Witness ==
    /\ last.op = "addItem"
    /\ last.found
    /\ Len(items) = 2
    /\ items[1].id = last.id
    /\ items[1].price # last.item.price
    /\ items[1].maxQuantity # last.item.maxQuantity
    /\ items[1].quantity = last.prevQuantity + last.quantity

----------------------------------------------------------------------------

\* C26: when the order request fails (a response that is not ok, or a
\* thrown error) the end of onSubmit leaves the cart as it is, so that with
\* no cart action since the submission the items are those submitted; an
\* error message is set, isSubmitting is false again and the form is shown
\* for another submission.
C26_FailedOrderKeepsCart ==
    [][last'.op = "orderFailed"
        => /\ items' = items
           /\ storage' = storage
           /\ last.op = "submit" => lineItems(items') = checkout.lineItems
           /\ checkout'.error
           /\ ~checkout'.isSubmitting
           /\ checkout'.pc = "form"]_vars

\* the order request for a cart of two lines failed; the two lines are in
\* the cart and the form shows the error
C26_Witness ==
    /\ last.op = "orderFailed"
    /\ Len(checkout.lineItems) = 2
    /\ Len(items) = 2
    /\ lineItems(items) = checkout.lineItems
    /\ checkout.error
    /\ ~checkout.isSubmitting

\* C27: the items the clearCart after a successful order discards are
\* exactly those sent in the order: every line in the cart when the request
\* succeeds was sent, with the quantity it has.
C27_ClearsOnlyWhatWasSent ==
    [][last'.op = "orderOk"
        => \A i \in 1..Len(items) :
              \E k \in 1..Len(checkout.lineItems) :
                 checkout.lineItems[k] = lineItem(items[i])]_vars

----------------------------------------------------------------------------
(* SpecAuth: the auth store. The pages call setUser after a login, logout  *)
(* and setLoading; every set is followed by a write of the 'auth-storage' *)
(* slot, and a page load creates the store anew from that slot             *)

\* The users the pages pass to setUser: the details page passes the same id
\* with a new displayName
AuthNames == {"Ann", "Bea"}
AuthUsers == [id : 1..MaxUserId, displayName : AuthNames]
AuthTokens == {"jwt-a", "jwt-b", "jwt-c"}

authPartializeNoToken(state) ==
    [user |-> state.user, isAuthenticated |-> state.isAuthenticated]

\* partialize: user, token and isAuthenticated are saved, isLoading is not
authPartialize(state) ==
    [user |-> state.user, token |-> state.token,
     isAuthenticated |-> state.isAuthenticated]

\* set of the auth store: the partial is merged into the state and the
\* snapshot is written to the slot
AuthSetState(op, partial) ==
    LET merged == [k \in {"user", "token", "isAuthenticated", "isLoading"} |->
                      IF k \in DOMAIN partial THEN partial[k] ELSE auth[k]]
    IN auth' = [user |-> merged.user, token |-> merged.token,
                isAuthenticated |-> merged.isAuthenticated,
                isLoading |-> merged.isLoading,
                slot |-> SlotText([state |-> authPartialize(merged),
                                   version |-> StorageVersion]),
                op |-> op]

\* Slots found at the first load: none, text that is not JSON, or the
\* document of a deployment with another version number, whatever it holds
AuthForeignSlots ==
    {Undefined, CorruptSlot}
    \cup {SlotText([state |-> [user |-> u, token |-> t, isAuthenticated |-> a],
                    version |-> v]) :
             u \in {Undefined, Some([id |-> 1, displayName |-> "Ann"])}, t \in {Undefined, Some("jwt-a")},
             a \in BOOLEAN, v \in OtherVersions}

\* The state of a newly created auth store: the initial state, with the
\* saved properties of an adopted slot merged over it
authHydrate(slot) ==
    IF getItem(slot).threw \/ migratedState(slot) = Undefined
    THEN [user |-> Undefined, token |-> Undefined, isAuthenticated |-> FALSE]
    ELSE [k \in {"user", "token", "isAuthenticated"} |->
             IF k \in DOMAIN migratedState(slot)[1] THEN migratedState(slot)[1][k]
             ELSE NoAuth[k]]

InitAuth ==
    /\ items = <<>>
    /\ isOpen = FALSE
    /\ computed = Getters
    /\ storage = Undefined
    /\ last = NoRecord
    /\ run = NoRun
    /\ phase = "store"
    /\ idIn = [a |-> NoItem, b |-> NoItem]
    /\ checkout = NoCheckout
    /\ otherTab = NoTab
    /\ pending = NoPending
    /\ route = NoRoute
    /\ \E slot \in AuthForeignSlots :
          auth = [user |-> authHydrate(slot).user,
                  token |-> authHydrate(slot).token,
                  isAuthenticated |-> authHydrate(slot).isAuthenticated,
                  isLoading |-> FALSE, slot |-> slot, op |-> "create"]

setUser(user, token) ==
    /\ AuthSetState("setUser", [user |-> Some(user), token |-> Some(token),
                                isAuthenticated |-> TRUE, isLoading |-> FALSE])
    /\ UNCHANGED <<cartStore, phase, idIn, checkout, otherTab, pending, route>>

logout ==
    /\ AuthSetState("logout", [user |-> Undefined, token |-> Undefined,
                               isAuthenticated |-> FALSE, isLoading |-> FALSE])
    /\ UNCHANGED <<cartStore, phase, idIn, checkout, otherTab, pending, route>>

setLoading(loading) ==
    /\ AuthSetState("setLoading", [isLoading |-> loading])
    /\ UNCHANGED <<cartStore, phase, idIn, checkout, otherTab, pending, route>>

\* A page load creates the auth store anew from the slot
AuthReload ==
    /\ auth' = [user |-> authHydrate(auth.slot).user,
                token |-> authHydrate(auth.slot).token,
                isAuthenticated |-> authHydrate(auth.slot).isAuthenticated,
                isLoading |-> FALSE, slot |-> auth.slot, op |-> "reload"]
    /\ UNCHANGED <<cartStore, phase, idIn, checkout, otherTab, pending, route>>

NextAuth ==
    \/ \E user \in AuthUsers, token \in AuthTokens : setUser(user, token)
    \/ logout
    \/ \E loading \in BOOLEAN : setLoading(loading)
    \/ AuthReload

SpecAuth == InitAuth /\ [][NextAuth]_vars

\* C29: in the auth store, after any sequence of setUser, logout and
\* setLoading and after rehydration from 'auth-storage', isAuthenticated is
\* true exactly when user and token are both non-null; logout leaves user
\* and token null and isAuthenticated false; setLoading changes nothing but
\* isLoading.
C29_AuthenticatedIffUserAndToken ==
    /\ [](auth.isAuthenticated <=> (auth.user # Undefined /\ auth.token # Undefined))
    /\ [](auth.op = "logout"
           => auth.user = Undefined /\ auth.token = Undefined
              /\ ~auth.isAuthenticated)
    /\ [][auth'.op = "setLoading"
           => /\ auth'.user = auth.user
              /\ auth'.token = auth.token
              /\ auth'.isAuthenticated = auth.isAuthenticated]_vars

\* a page load rehydrated a logged-in user from the slot that setUser and a
\* later setLoading wrote
C29_Witness ==
    /\ auth.op = "reload"
    /\ auth.isAuthenticated
    /\ auth.user # Undefined
    /\ auth.token # Undefined
    /\ ~auth.isLoading

====
